---- MODULE Spec2Model ----
(***************************************************************************)
(* The feed backend of the news recommender: GET /feed and POST            *)
(* /feed/interact (routes/feed.js) over the tables articles, users,        *)
(* impressions and interactions, the candidate view                        *)
(* final_user_candidate_list and the maintenance function                  *)
(* purge_old_articles.                                                     *)
(*                                                                         *)
(* Every await of a handler is one step, so that requests interleave at    *)
(* exactly the points where the event loop can switch.  One SQL statement  *)
(* is one step: PostgreSQL runs a single statement atomically.             *)
(*                                                                         *)
(* Time is counted in days.  Category names are transliterated:            *)
(* Politiki, Oikonomia, Athlitika, Gaming.                                 *)
(***************************************************************************)
EXTENDS Integers, Sequences, FiniteSets, TLC

(***************************************************************************)
(* Bounds of the model.                                                    *)
(***************************************************************************)
NumFeed == 2
NumInteract == 2
ClockSpan == 1
NumCold == 14
NumMain == 2
NumForced == 1
MaxMain == 92
MaxForced == 11
NumRenders == 2
MaxInteractions == 2
NumPageLoads == 3

FeedProcs == 1..NumFeed
InteractProcs == 1..NumInteract
RequestIds == 1..NumFeed

(***************************************************************************)
(* Program constants.                                                      *)
(***************************************************************************)
RECENCY_DAYS == 7
PURGE_DAYS == 7
COLD_PER_CAT == 12
MAX_K == 200
PER_USER_LIMIT == 1200
SOURCE_CAP == 20
CATEGORY_CAP == 120
FINAL_LIMIT == 200
CANDIDATE_LIMIT == 200
RECENCY_WEIGHT == 35
FORCED_SLOTS == 10
MAIN_SLOTS == 90
FORCED_OFFSET == 90
BALANCED_LIMIT == 100
QUOTA_POLITIKI == 45
QUOTA_OIKONOMIA == 30
QUOTA_ATHLITIKA == 20
QUOTA_GAMING == 5

\* training views: WHERE it.user_id = 1; weights 1.0 and 0.2, in tenths;
\* NULL::timestamptz; percentile_cont(0.8) = 4 / 5
TRAINING_USER == 1
EXPLICIT_WEIGHT == 10
IMPLICIT_WEIGHT == 2
NO_INTERACTION_TIME == 0 - 1
PERCENTILE_NUM == 4
PERCENTILE_DEN == 5

ALLOWED == {"click", "like", "share", "dislike"}
COLD_CATS == {"Politiki", "Oikonomia", "Athlitika", "Gaming"}
FORCED_SOURCES == {"bbc.com", "bleacherreport.com", "goal.com"}

NULL == "null"

\* the clock starts when article 1 is about to leave the 7-day window
InitNow == RECENCY_DAYS
MaxNow == InitNow + ClockSpan

(***************************************************************************)
(* The catalogue: the rows articles and users can hold.  Articles 1..4 are *)
(* the table the requests run against: article 1 leaves the 7-day window   *)
(* while the clock runs, article 4 has no publish time, article 3 lies     *)
(* outside the cold-start categories and has no embedding.  The reads of   *)
(* the views run against larger tables as well: a block of embedded        *)
(* articles of the other sources (101, 102, ...), a block of articles of   *)
(* the forced sources (201, ...), and a block of sports articles that have *)
(* no embedding yet (301, ...).                                            *)
(***************************************************************************)
ArticleIds == 1..4
UserIds == {1, 2}

InMain(a) == a \in 101..199
InForced(a) == a \in 201..299
InCold(a) == a \in 301..399

MainArticles(m) == {100 + j : j \in 1..m}
ForcedArticles(f) == {200 + i : i \in 1..f}
ColdArticles(c) == {300 + i : i \in 1..c}

\* articles.published_at is nullable: article 4 has none
published_at_is_null(a) == a = 4

\* in days; the articles of a block are spread over eight days
published_at(a) ==
  CASE a = 1 -> 0
    [] a = 2 -> 3
    [] a = 3 -> 4
    [] InMain(a) -> (a - 100) % 8
    [] InForced(a) -> 1 + ((a - 200) % 7)
    [] InCold(a) -> (a - 300) % 8
    [] OTHER -> 0

category(a) ==
  CASE a = 1 -> "Politiki"
    [] a = 2 -> "Gaming"
    [] a = 3 -> "Kosmos"
    [] InMain(a) /\ a - 100 <= 6 -> "Gaming"
    [] InMain(a) /\ a - 100 \in 7..20 -> "Athlitika"
    [] InMain(a) /\ a - 100 \in 21..48 -> "Oikonomia"
    [] InForced(a) /\ (a - 200) % 3 = 1 -> "Gaming"
    [] InForced(a) /\ (a - 200) % 3 = 2 -> "Kosmos"
    [] InForced(a) \/ InCold(a) -> "Athlitika"
    [] OTHER -> "Politiki"

source(a) ==
  CASE a = 1 -> "in.gr"
    [] a = 2 -> "bbc.com"
    [] a = 3 -> "in.gr"
    [] InMain(a) /\ a % 2 = 0 -> "kathimerini.gr"
    [] InMain(a) -> "in.gr"
    [] InForced(a) /\ (a - 200) % 3 = 1 -> "bbc.com"
    [] InForced(a) /\ (a - 200) % 3 = 2 -> "bleacherreport.com"
    [] InCold(a) -> "sport24.gr"
    [] OTHER -> "goal.com"

\* articles.embedding is nullable: article 3 and the sports block have none
article_has_embedding(a) == a # 3 /\ ~InCold(a)

user_has_embedding(u) == u # 2

\* a.embedding <=> u.embedding, in hundredths, of a user and an article that
\* both have an embedding; articles 101 and 102 are equally far
distance(u, a) ==
  CASE a = 1 -> 10
    [] a = 2 -> 30
    [] a = 3 -> 20
    [] a = 102 -> 87
    [] InMain(a) -> 50 + (((a - 100) * 37) % 101)
    [] InForced(a) -> 40 + 3 * (a - 200)
    [] OTHER -> 40

VARIABLES now, articles, impressions, interactions, feed, inter, ranker, out,
          feedApp, app

vars == <<now, articles, impressions, interactions, feed, inter, ranker, out,
          feedApp, app>>

(***************************************************************************)
(* Inputs of the requests.  0 stands for every malformed value of a number *)
(* (not an integer, or not positive) and for a request id that is not a    *)
(* string of at least 10 characters; a positive request id stands for a    *)
(* well-formed UUID.                                                       *)
(***************************************************************************)
UserInputs == {0} \cup UserIds
KInputs == {0, 1, 2, MAX_K + 1}
ArticleInputs == {0, 1, 2}
RequestIdInputs == {0} \cup RequestIds
TypeInputs == {"like", "rate"}

(***************************************************************************)
(* Sequences and SQL orderings.                                            *)
(***************************************************************************)
Range(s) == {s[i] : i \in DOMAIN s}

Injective(s) == \A i, j \in DOMAIN s : s[i] = s[j] => i = j

Min(x, y) == IF x <= y THEN x ELSE y

\* LIMIT n
Limit(s, n) == SubSeq(s, 1, Min(Len(s), n))

\* Every order in which ORDER BY key ASC may return the rows of S: rows
\* with equal keys come in any order.
RECURSIVE SortedSeqs(_, _)
SortedSeqs(S, key) ==
  IF S = {}
  THEN {<<>>}
  ELSE UNION {{<<a>> \o s : s \in SortedSeqs(S \ {a}, key)} :
                a \in {x \in S : \A y \in S : key[x] <= key[y]}}

Pos(s, a) == CHOOSE i \in DOMAIN s : s[i] = a

\* ROW_NUMBER() OVER (PARTITION BY ... ORDER BY ...): the row's place among
\* the rows of its partition P, in the order o of all rows
RowNumber(o, P, a) == 1 + Cardinality({b \in P : Pos(o, b) < Pos(o, a)})

\* published_at >= NOW() - INTERVAL '7 days'; a NULL publish time compares
\* to NULL, which a WHERE clause drops
Recent(a, t) == ~published_at_is_null(a) /\ published_at(a) >= t - RECENCY_DAYS

\* the sort keys: ORDER BY distance ASC, ORDER BY published_at DESC
ByDistance(u, S) == [a \in S |-> distance(u, a)]

ByRecency(S) == [a \in S |-> 0 - published_at(a)]

(***************************************************************************)
(* The view final_user_candidate_list, for user u over the tables arts and *)
(* inters at time t.                                                       *)
(***************************************************************************)
PerUserBase(u, arts, inters, t) ==
  {a \in arts :
     /\ u \in UserIds
     /\ user_has_embedding(u)
     /\ article_has_embedding(a)
     /\ Recent(a, t)
     /\ ~\E i \in inters : i.user_id = u /\ i.article_id = a}

PerUserSets(u, arts, inters, t) ==
  {Range(Limit(o, PER_USER_LIMIT)) :
     o \in SortedSeqs(PerUserBase(u, arts, inters, t),
                      ByDistance(u, PerUserBase(u, arts, inters, t)))}

Ranked(u, per) ==
  {[a \in per |->
      [rn_source |-> RowNumber(oS, {b \in per : source(b) = source(a)}, a),
       rn_category |-> RowNumber(oC, {b \in per : category(b) = category(a)}, a),
       rank_by_distance |-> RowNumber(oD, per, a),
       rank_by_recency |-> RowNumber(oR, per, a)]] :
     oS \in SortedSeqs(per, ByDistance(u, per)),
     oC \in SortedSeqs(per, ByDistance(u, per)),
     oD \in SortedSeqs(per, ByDistance(u, per)),
     oR \in SortedSeqs(per, ByRecency(per))}

Capped(r) ==
  {a \in DOMAIN r :
     /\ r[a].rn_source <= SOURCE_CAP
     /\ (category(a) = NULL \/ r[a].rn_category <= CATEGORY_CAP)}

\* rank_by_distance + 0.35 * rank_by_recency, in hundredths
final_rank(r, a) == 100 * r[a].rank_by_distance + RECENCY_WEIGHT * r[a].rank_by_recency

FinalRanked(r) ==
  {Limit(o, FINAL_LIMIT) :
     o \in SortedSeqs(Capped(r), [a \in Capped(r) |-> final_rank(r, a)])}

final_user_candidate_list(u, arts, inters, t) ==
  UNION {UNION {FinalRanked(r) : r \in Ranked(u, per)} :
           per \in PerUserSets(u, arts, inters, t)}

\* SELECT ... FROM final_user_candidate_list WHERE user_id = $1
\* ORDER BY rn_final LIMIT $2: the possible results
fetchCandidates(u, limit, arts, inters, t) ==
  {Limit(l, limit) : l \in final_user_candidate_list(u, arts, inters, t)}

(***************************************************************************)
(* The cold-start query.                                                   *)
(***************************************************************************)
ColdBase(arts, t) == {a \in arts : Recent(a, t) /\ category(a) \in COLD_CATS}

\* a cold start that numbers the rows of a category and keeps them all
ColdPickedUncapped(o, arts, t) == ColdBase(arts, t)

\* WHERE rn <= $2, for the order o that numbered the rows
ColdPicked(o, arts, t) ==
  {a \in ColdBase(arts, t) :
     RowNumber(o, {b \in ColdBase(arts, t) : category(b) = category(a)}, a)
       <= COLD_PER_CAT}

fetchColdStart(arts, t) ==
  UNION {SortedSeqs(ColdPicked(o, arts, t), ByRecency(ColdPicked(o, arts, t))) :
           o \in SortedSeqs(ColdBase(arts, t), ByRecency(ColdBase(arts, t)))}

\* a lookup that takes the user's row for the embedding
hasUserEmbeddingAnyRow(u) == u \in UserIds

\* SELECT embedding IS NOT NULL AS ok FROM users WHERE id = $1;
\* Boolean(r.rows[0]?.ok) is false for a user without a row
hasUserEmbedding(u) == u \in UserIds /\ user_has_embedding(u)

(***************************************************************************)
(* The view user_semantic_candidates_balanced, for user u over the tables  *)
(* arts and inters at time t, and the candidates query of the first feed   *)
(* route, which reads it.                                                  *)
(***************************************************************************)
\* (a.embedding <=> u.embedding) is NULL when either embedding is
distance_is_null(u, a) == ~user_has_embedding(u) \/ ~article_has_embedding(a)

\* ORDER BY distance ASC: a NULL distance sorts after every number
DistanceBefore(u, a, b) ==
  /\ ~distance_is_null(u, a)
  /\ (distance_is_null(u, b) \/ distance(u, a) < distance(u, b))

DistanceTie(u, a, b) == ~DistanceBefore(u, a, b) /\ ~DistanceBefore(u, b, a)

\* ORDER BY b.distance ASC, b.published_at DESC, b.article_id ASC
TieBrokenBefore(u, a, b) ==
  \/ DistanceBefore(u, a, b)
  \/ /\ DistanceTie(u, a, b)
     /\ \/ published_at(a) > published_at(b)
        \/ published_at(a) = published_at(b) /\ a < b

\* ROW_NUMBER() OVER (PARTITION BY ... ORDER BY distance, published_at DESC,
\* article_id) of row a in its partition P: the order is total
RowNumberTieBroken(u, P, a) ==
  1 + Cardinality({b \in P : TieBrokenBefore(u, b, a)})

balanced_base(u, arts, inters, t) ==
  {a \in arts :
     /\ u \in UserIds
     /\ article_has_embedding(a)
     /\ Recent(a, t)
     /\ ~\E i \in inters : i.user_id = u /\ i.article_id = a}

forced_ranked(base) == {a \in base : source(a) \in FORCED_SOURCES}

\* WHERE rn_forced <= 10
forced_picked(u, base) ==
  LET fr == forced_ranked(base)
  IN {a \in fr : RowNumberTieBroken(u, fr, a) <= FORCED_SLOTS}

\* a main pool that takes the articles of every source
ranked_per_categoryAllSources(base) == base

ranked_per_category(base) == {a \in base : source(a) \notin FORCED_SOURCES}

\* the cap of a category; a category the WHERE does not name passes no row
category_quota(c) ==
  CASE c = "Politiki" -> QUOTA_POLITIKI
    [] c = "Oikonomia" -> QUOTA_OIKONOMIA
    [] c = "Athlitika" -> QUOTA_ATHLITIKA
    [] c = "Gaming" -> QUOTA_GAMING
    [] OTHER -> 0

\* a balancer that ranks the categories and forgets to cut them
quota_appliedUncut(u, base) ==
  {a \in ranked_per_category(base) : category_quota(category(a)) > 0}

quota_applied(u, base) ==
  LET rpc == ranked_per_category(base)
  IN {a \in rpc :
        RowNumberTieBroken(u, {b \in rpc : category(b) = category(a)}, a)
          <= category_quota(category(a))}

\* WHERE rn_main <= 90
main_picked(u, base) ==
  LET qa == quota_applied(u, base)
  IN {a \in qa : RowNumberTieBroken(u, qa, a) <= MAIN_SLOTS}

\* the rows of combined: rn_user is rn_main, or 90 + rn_forced; a forced row
\* is the one whose rn_category is NULL
combined(u, base) ==
  LET qa == quota_applied(u, base)
      fr == forced_ranked(base)
  IN {[article_id |-> a, rn_user |-> RowNumberTieBroken(u, qa, a),
       forced |-> FALSE] : a \in main_picked(u, base)}
     \cup
     {[article_id |-> a, rn_user |-> FORCED_OFFSET + RowNumberTieBroken(u, fr, a),
       forced |-> TRUE] : a \in forced_picked(u, base)}

\* SELECT * FROM combined WHERE rn_user <= 100, for one user
user_semantic_candidates_balanced(u, arts, inters, t) ==
  {r \in combined(u, balanced_base(u, arts, inters, t)) :
     r.rn_user <= BALANCED_LIMIT}

\* ORDER BY c.distance ASC LIMIT k: every list the sort may return, rows of
\* equal distance in any order
RECURSIVE FirstByDistance(_, _, _)
FirstByDistance(u, rows, k) ==
  IF k = 0 \/ rows = {}
  THEN {<<>>}
  ELSE UNION {{<<r>> \o s : s \in FirstByDistance(u, rows \ {r}, k - 1)} :
                r \in {x \in rows :
                         \A y \in rows :
                           ~DistanceBefore(u, y.article_id, x.article_id)}}

\* the candidates query of the first route: the view joined to articles
candidatesQueryV1(u, k, arts, inters, t) ==
  FirstByDistance(u,
    {r \in user_semantic_candidates_balanced(u, arts, inters, t) :
       r.article_id \in arts}, k)

(***************************************************************************)
(* The impression ledger.  A row is its user, article, rank position,      *)
(* request id and model version; id, shown_at, surface and session_id take *)
(* their defaults and no handler reads them.                               *)
(***************************************************************************)
\* a write that numbers the rows from the end of the list
ImpressionRowsReversed(userId, requestId, items, modelVersion) ==
  {[user_id |-> userId, article_id |-> items[i],
    rank_position |-> Len(items) + 1 - i, request_id |-> requestId,
    model_version |-> modelVersion] : i \in DOMAIN items}

\* one row per element of the arrays: rank_position = idx + 1
ImpressionRows(userId, requestId, items, modelVersion) ==
  {[user_id |-> userId, article_id |-> items[i],
    rank_position |-> i, request_id |-> requestId,
    model_version |-> modelVersion] : i \in DOMAIN items}

\* uq_impr_request_article and uq_impr_user_request_article
UniqueViolation(requestId, items, imprs) ==
  \/ ~Injective(items)
  \/ \E r \in imprs : r.request_id = requestId /\ r.article_id \in Range(items)

\* fk_impr_user and fk_impr_article
ForeignKeyViolation(userId, items, arts) ==
  \/ userId \notin UserIds
  \/ \E i \in DOMAIN items : items[i] \notin arts

InsertFails(userId, requestId, items, imprs, arts) ==
  \/ UniqueViolation(requestId, items, imprs)
  \/ ForeignKeyViolation(userId, items, arts)

\* a write that stops at the first row the table rejects
InsertedRowsPartial(userId, requestId, items, modelVersion, imprs, arts) ==
  {r \in ImpressionRows(userId, requestId, items, modelVersion) :
     \A i \in 1..r.rank_position :
       ~InsertFails(userId, requestId, <<items[i]>>, imprs, arts)}

\* the rows the INSERT ... SELECT ... UNNEST statement adds: one statement,
\* so all of them or, when a constraint rejects one, none
InsertedRows(userId, requestId, items, modelVersion, imprs, arts) ==
  IF InsertFails(userId, requestId, items, imprs, arts)
  THEN {}
  ELSE ImpressionRows(userId, requestId, items, modelVersion)

(***************************************************************************)
(* Responses.                                                              *)
(***************************************************************************)
NoResponse == [status |-> 0, items |-> <<>>, mode |-> NULL]

ErrorResponse(code) == [status |-> code, items |-> <<>>, mode |-> NULL]

FeedResponse(items, mode) == [status |-> 200, items |-> items, mode |-> mode]

FeedIdle ==
  [pc |-> "idle", user_id |-> 0, k |-> 0, request_id |-> 0,
   candidates |-> <<>>, items |-> <<>>, model_version |-> NULL,
   mode |-> NULL, rr |-> "none", err |-> NULL, resp |-> NoResponse]

\* nothing has been read from the views outside a request
NoRead ==
  [view |-> NULL, user_id |-> 0, k |-> 0, rows |-> <<>>,
   repeated |-> FALSE, again |-> <<>>]

\* what a read of a view returned
Read(view, u, k, rows) ==
  [view |-> view, user_id |-> u, k |-> k, rows |-> rows,
   repeated |-> FALSE, again |-> <<>>]

InteractIdle ==
  [pc |-> "idle", user_id |-> 0, request_id |-> 0, article_id |-> 0,
   interaction_type |-> NULL, chk |-> NULL, status |-> 0]

\* no interaction request has left the page
NoSent ==
  [user_id |-> 0, request_id |-> 0, article_id |-> 0,
   interaction_type |-> NULL, rendered_request_id |-> 0, rendered_user_id |-> 0]

PageCalls == 1..NumPageLoads

\* the feed page (frontend/feed/app.js) when its script has run: the
\* variables of the script, the grid with the request id of the response
\* its cards were rendered from, whether the Apply button is disabled, the
\* calls of loadFeed (call 1 is the one of DOMContentLoaded), the share
\* handler waiting for the clipboard, the number of feed responses so far,
\* whether the page was left for the login page, and the interaction
\* request sent last
FeedAppInit ==
  [currentUserId |-> 0, currentRequestId |-> 0, div |-> 3,
   isLoadingFeed |-> FALSE, isColdStart |-> FALSE,
   selectedCategory |-> "__all__", fullFeedItems |-> <<>>,
   grid |-> <<>>, gridRequestId |-> 0, applyDisabled |-> FALSE,
   calls |-> [c \in PageCalls |-> "idle"],
   share |-> 0, issued |-> 0, left |-> FALSE, sent |-> NoSent]

\* the page with a user-id input (frontend/app.js): its two variables, the
\* value of the input, the Load button, the user of the request in flight
\* (0: none), the grid with the request id and the user of the response it
\* was rendered from, the number of loads so far, and the interaction
\* request sent last
AppInit ==
  [currentRequestId |-> 0, currentUserId |-> 1, userIdInput |-> 0,
   loadBtnDisabled |-> FALSE, inFlight |-> 0,
   grid |-> <<>>, gridRequestId |-> 0, gridUserId |-> 0,
   loads |-> 0, sent |-> NoSent]

Init ==
  /\ now = InitNow
  /\ articles = ArticleIds
  /\ impressions = {}
  /\ interactions = {}
  /\ feed = [p \in FeedProcs |-> FeedIdle]
  /\ inter = [q \in InteractProcs |-> InteractIdle]
  /\ ranker = "up"
  /\ out = NoRead
  /\ feedApp = FeedAppInit
  /\ app = AppInit

(***************************************************************************)
(* GET /feed.  The steps of one request are the awaits at which another    *)
(* request can change what this one reads next: the request-id and         *)
(* embedding lookups read nothing another request writes and run with the  *)
(* arrival, the ranking answer runs with the hydration that follows it.    *)
(***************************************************************************)
\* the catch block: every error thrown inside the try ends the same way
FeedCatch(p, origin) ==
  feed' = [feed EXCEPT ![p] = [FeedIdle EXCEPT
             !.pc = "done", !.user_id = feed[p].user_id,
             !.request_id = feed[p].request_id, !.rr = feed[p].rr,
             !.err = origin, !.resp = ErrorResponse(500)]]

\* res.json({request_id, items, debug: {mode}}); a finished request keeps
\* its user, its request id, whether the ranker was called, and the response
FeedSend(p, items) ==
  feed' = [feed EXCEPT ![p] = [FeedIdle EXCEPT
             !.pc = "done", !.user_id = feed[p].user_id,
             !.request_id = feed[p].request_id, !.rr = feed[p].rr,
             !.resp = FeedResponse(items, feed[p].mode)]]

\* the two validations before the try
FeedInputValid(u, k) == ~(u <= 0) /\ ~(k <= 0 \/ k > MAX_K)

IssuedRequestIds == {feed[p].request_id : p \in FeedProcs} \ {0}

\* SELECT gen_random_uuid() when it never repeats a value: request ids are
\* interchangeable, so the fresh value is taken to be the least unissued one
genRequestId ==
  {rid \in RequestIds \ IssuedRequestIds :
     \A other \in RequestIds \ IssuedRequestIds : rid <= other}

\* the request arrives: validation, genRequestId, hasUserEmbedding
FeedStart(p, pool) ==
  /\ feed[p].pc = "idle"
  /\ \A x \in FeedProcs : x < p => feed[x].pc # "idle"
  /\ \E u \in UserInputs, k \in KInputs :
       IF ~FeedInputValid(u, k)
       THEN feed' = [feed EXCEPT ![p].pc = "done", ![p].resp = ErrorResponse(400)]
       ELSE \E rid \in pool :
              feed' = IF hasUserEmbedding(u)
                      THEN [feed EXCEPT ![p].user_id = u, ![p].k = k,
                                        ![p].request_id = rid,
                                        ![p].pc = "fetchCandidates"]
                      ELSE [feed EXCEPT ![p].user_id = u, ![p].k = k,
                                        ![p].request_id = rid,
                                        ![p].pc = "fetchColdStart",
                                        ![p].mode = "coldstart",
                                        ![p].model_version = "coldstart_balanced_v1"]
  /\ UNCHANGED <<ranker, out, now, articles, impressions, interactions, inter,
               feedApp, app>>

FeedFetchColdStart(p) ==
  /\ feed[p].pc = "fetchColdStart"
  /\ \E items \in fetchColdStart(articles, now) :
       feed' = [feed EXCEPT ![p].items = items, ![p].pc = "logImpressions"]
  /\ UNCHANGED <<ranker, out, now, articles, impressions, interactions, inter,
               feedApp, app>>

\* a fallback that reports the mode of a cold start
FeedFetchCandidatesColdMode(p) ==
  /\ feed[p].pc = "fetchCandidates"
  /\ \/ \E c \in fetchCandidates(feed[p].user_id, CANDIDATE_LIMIT,
                                 articles, interactions, now) :
          feed' = IF Len(c) = 0
                  THEN [feed EXCEPT ![p].pc = "fetchColdStart",
                                    ![p].mode = "coldstart",
                                    ![p].model_version = "fallback_no_candidates_v1"]
                  ELSE [feed EXCEPT ![p].candidates = c, ![p].pc = "rank"]
     \/ FeedCatch(p, "candidates")
  /\ UNCHANGED <<ranker, out, now, articles, impressions, interactions, inter,
               feedApp, app>>

FeedFetchCandidates(p) ==
  /\ feed[p].pc = "fetchCandidates"
  /\ \/ \E c \in fetchCandidates(feed[p].user_id, CANDIDATE_LIMIT,
                                 articles, interactions, now) :
          feed' = IF Len(c) = 0
                  THEN [feed EXCEPT ![p].pc = "fetchColdStart",
                                    ![p].mode = "fallback_no_candidates",
                                    ![p].model_version = "fallback_no_candidates_v1"]
                  ELSE [feed EXCEPT ![p].candidates = c, ![p].pc = "rank"]
     \/ FeedCatch(p, "candidates")   \* the candidate query throws
  /\ UNCHANGED <<ranker, out, now, articles, impressions, interactions, inter,
               feedApp, app>>

\* what the ranking service may answer with: a re-ranked subset of the
\* candidates, at most k of them
RankerAnswers(c, k) ==
  UNION {{s \in [1..n -> Range(c)] : Injective(s)} : n \in 0..Min(k, Len(c))}

\* hydrateArticlesByIds and the merge: ranked ids without a row are dropped
hydrateArticlesByIds(rankedIds, arts) ==
  LET present(a) == a \in arts IN SelectSeq(rankedIds, present)

\* a handler that does not look at rr.ok and serves what it fetched
FeedRankServesUnranked(p) ==
  /\ feed[p].pc = "rank"
  /\ \E ok \in {"ok", "notok"} :
       feed' = [feed EXCEPT
                  ![p].rr = ok,
                  ![p].candidates = <<>>,
                  ![p].items = hydrateArticlesByIds(
                                 Limit(feed[p].candidates, feed[p].k), articles),
                  ![p].mode = "personalized_mmr",
                  ![p].model_version = "ml_mmr_v1_div0.5",
                  ![p].pc = "logImpressions"]
  /\ UNCHANGED <<ranker, out, now, articles, impressions, interactions, inter,
               feedApp, app>>

\* a fetch that waits for the response headers without a time limit
FeedRankWaitsForHeaders(p) ==
  /\ feed[p].pc = "rank"
  /\ \/ /\ ranker = "up"
        /\ \E ranked \in RankerAnswers(feed[p].candidates, feed[p].k) :
             feed' = [feed EXCEPT
                        ![p].rr = "ok",
                        ![p].candidates = <<>>,
                        ![p].items = hydrateArticlesByIds(ranked, articles),
                        ![p].mode = "personalized_mmr",
                        ![p].model_version = "ml_mmr_v1_div0.5",
                        ![p].pc = "logImpressions"]
     \/ /\ ranker = "up"
        /\ feed' = [feed EXCEPT ![p] = [FeedIdle EXCEPT
                      !.pc = "done", !.user_id = feed[p].user_id,
                      !.request_id = feed[p].request_id, !.rr = "notok",
                      !.err = "ranking", !.resp = ErrorResponse(500)]]
     \/ /\ ranker = "down"
        /\ feed' = [feed EXCEPT ![p] = [FeedIdle EXCEPT
                      !.pc = "done", !.user_id = feed[p].user_id,
                      !.request_id = feed[p].request_id, !.rr = "rejected",
                      !.err = "ranking", !.resp = ErrorResponse(500)]]
  /\ UNCHANGED <<ranker, out, now, articles, impressions, interactions, inter,
               feedApp, app>>

\* await fetch(RANKING_URL) has settled.  A service that is up answers, OK
\* or not; on an OK answer the items are hydrated.  When the service
\* refuses the connection ("down"), or accepts it and sends no response
\* ("silent", where the runtime's fetch stops waiting for the headers), the
\* promise rejects and the catch block answers.
FeedRank(p) ==
  /\ feed[p].pc = "rank"
  /\ \/ /\ ranker = "up"
        /\ \E ranked \in RankerAnswers(feed[p].candidates, feed[p].k) :
             feed' = [feed EXCEPT
                        ![p].rr = "ok",
                        ![p].candidates = <<>>,
                        ![p].items = hydrateArticlesByIds(ranked, articles),
                        ![p].mode = "personalized_mmr",
                        ![p].model_version = "ml_mmr_v1_div0.5",
                        ![p].pc = "logImpressions"]
     \/ /\ ranker = "up"
        /\ feed' = [feed EXCEPT ![p] = [FeedIdle EXCEPT
                      !.pc = "done", !.user_id = feed[p].user_id,
                      !.request_id = feed[p].request_id, !.rr = "notok",
                      !.err = "ranking", !.resp = ErrorResponse(500)]]
     \/ /\ ranker \in {"down", "silent"}
        /\ feed' = [feed EXCEPT ![p] = [FeedIdle EXCEPT
                      !.pc = "done", !.user_id = feed[p].user_id,
                      !.request_id = feed[p].request_id, !.rr = "rejected",
                      !.err = "ranking", !.resp = ErrorResponse(500)]]
  /\ UNCHANGED <<ranker, out, now, articles, impressions, interactions, inter,
               feedApp, app>>

\* a handler that answers with the items whether or not they were recorded
FeedLogImpressionsIgnoresFailure(p) ==
  /\ feed[p].pc = "logImpressions"
  /\ \/ /\ Len(feed[p].items) = 0
        /\ FeedSend(p, <<>>)
        /\ UNCHANGED impressions
     \/ /\ Len(feed[p].items) > 0
        /\ impressions' = impressions \cup
             InsertedRows(feed[p].user_id, feed[p].request_id, feed[p].items,
                          feed[p].model_version, impressions, articles)
        /\ FeedSend(p, feed[p].items)
     \/ /\ Len(feed[p].items) > 0
        /\ FeedCatch(p, "ledger")
        /\ UNCHANGED impressions
  /\ UNCHANGED <<ranker, out, now, articles, interactions, inter,
               feedApp, app>>

\* await logImpressions(...) and the response that follows it
FeedLogImpressions(p) ==
  /\ feed[p].pc = "logImpressions"
  /\ \/ /\ Len(feed[p].items) = 0
        /\ FeedSend(p, <<>>)
        /\ UNCHANGED impressions
     \/ /\ Len(feed[p].items) > 0
        /\ impressions' = impressions \cup
             InsertedRows(feed[p].user_id, feed[p].request_id, feed[p].items,
                          feed[p].model_version, impressions, articles)
        /\ IF InsertFails(feed[p].user_id, feed[p].request_id, feed[p].items,
                          impressions, articles)
           THEN FeedCatch(p, "ledger")
           ELSE FeedSend(p, feed[p].items)
     \/ /\ Len(feed[p].items) > 0        \* the statement fails as a whole
        /\ FeedCatch(p, "ledger")
        /\ UNCHANGED impressions
  /\ UNCHANGED <<ranker, out, now, articles, interactions, inter,
               feedApp, app>>

(***************************************************************************)
(* POST /feed/interact.  Validation runs with the integrity lookup.        *)
(***************************************************************************)
\* a validation that leaves the interaction type to the database
InteractInputValidAnyType(u, rid, a, ty) ==
  ~(u <= 0) /\ ~(a <= 0) /\ ~(rid = 0)

InteractInputValid(u, rid, a, ty) ==
  ~(u <= 0) /\ ~(a <= 0) /\ ~(rid = 0) /\ ty \in ALLOWED

\* a lookup that forgets the request id
MatchingImpressionsAnyRequest(u, rid, a, imprs) ==
  {r \in imprs : r.user_id = u /\ r.article_id = a}

\* SELECT 1 FROM impressions WHERE user_id = $1 AND request_id = $2 AND article_id = $3
MatchingImpressions(u, rid, a, imprs) ==
  {r \in imprs : r.user_id = u /\ r.request_id = rid /\ r.article_id = a}

InteractStart(q) ==
  /\ inter[q].pc = "idle"
  /\ \A x \in InteractProcs : x < q => inter[x].pc # "idle"
  /\ \E u \in UserInputs, rid \in RequestIdInputs,
        a \in ArticleInputs, ty \in TypeInputs :
       inter' =
         IF ~InteractInputValid(u, rid, a, ty)
         THEN [inter EXCEPT ![q].pc = "done", ![q].status = 400]
         ELSE IF MatchingImpressions(u, rid, a, impressions) = {}
         THEN [inter EXCEPT ![q].user_id = u, ![q].request_id = rid,
                            ![q].article_id = a, ![q].interaction_type = ty,
                            ![q].chk = "none", ![q].pc = "done",
                            ![q].status = 409]
         ELSE [inter EXCEPT ![q].user_id = u, ![q].request_id = rid,
                            ![q].article_id = a, ![q].interaction_type = ty,
                            ![q].chk = "found", ![q].pc = "insert"]
  /\ UNCHANGED <<ranker, out, now, articles, impressions, interactions, feed,
               feedApp, app>>

\* an interactions table without its foreign keys
InteractionInsertFailsNoForeignKey(u, a, ty, inters, arts) ==
  \E i \in inters :
    i.user_id = u /\ i.article_id = a /\ i.interaction_type = ty

\* UNIQUE (user_id, article_id, interaction_type), and the foreign keys of
\* interactions to users and articles
InteractionInsertFails(u, a, ty, inters, arts) ==
  \/ \E i \in inters :
       i.user_id = u /\ i.article_id = a /\ i.interaction_type = ty
  \/ u \notin UserIds
  \/ a \notin arts

\* a recorder that uses up the impression it was checked against
InteractInsertConsumesImpression(q) ==
  /\ inter[q].pc = "insert"
  /\ IF InteractionInsertFails(inter[q].user_id, inter[q].article_id,
                               inter[q].interaction_type, interactions, articles)
     THEN /\ inter' = [inter EXCEPT ![q].pc = "done", ![q].status = 500]
          /\ UNCHANGED <<impressions, interactions>>
     ELSE /\ interactions' = interactions \cup
               {[user_id |-> inter[q].user_id,
                 article_id |-> inter[q].article_id,
                 request_id |-> inter[q].request_id,
                 interaction_type |-> inter[q].interaction_type]}
          /\ impressions' = impressions \
               MatchingImpressions(inter[q].user_id, inter[q].request_id,
                                   inter[q].article_id, impressions)
          /\ inter' = [inter EXCEPT ![q].pc = "done", ![q].status = 200]
  /\ UNCHANGED <<ranker, out, now, articles, feed,
               feedApp, app>>

InteractInsert(q) ==
  /\ inter[q].pc = "insert"
  /\ IF InteractionInsertFails(inter[q].user_id, inter[q].article_id,
                               inter[q].interaction_type, interactions, articles)
     THEN /\ inter' = [inter EXCEPT ![q].pc = "done", ![q].status = 500]
          /\ UNCHANGED interactions
     ELSE /\ interactions' = interactions \cup
               {[user_id |-> inter[q].user_id,
                 article_id |-> inter[q].article_id,
                 request_id |-> inter[q].request_id,
                 interaction_type |-> inter[q].interaction_type]}
          /\ inter' = [inter EXCEPT ![q].pc = "done", ![q].status = 200]
  /\ UNCHANGED <<ranker, out, now, articles, impressions, feed,
               feedApp, app>>

(***************************************************************************)
(* purge_old_articles and the clock.                                       *)
(***************************************************************************)
PurgedArticles(arts, t) ==
  {a \in arts : ~published_at_is_null(a) /\ published_at(a) < t - PURGE_DAYS}

\* article_id ... REFERENCES articles(id) ON DELETE CASCADE
CascadeInteractions(inters, arts) == {i \in inters : i.article_id \in arts}

\* fk_impr_article ... ON DELETE CASCADE
CascadeImpressions(imprs, arts) == {r \in imprs : r.article_id \in arts}

purge_old_articles ==
  /\ articles' = articles \ PurgedArticles(articles, now)
  /\ impressions' = CascadeImpressions(impressions, articles')
  /\ interactions' = CascadeInteractions(interactions, articles')
  /\ UNCHANGED <<ranker, out, now, feed, inter,
               feedApp, app>>

Tick ==
  /\ now < MaxNow
  /\ now' = now + 1
  /\ UNCHANGED <<ranker, out, articles, impressions, interactions, feed, inter,
               feedApp, app>>

(***************************************************************************)
(* The specifications.  Under Spec gen_random_uuid() never returns a value *)
(* twice; under SpecCollide two renders may get the same request id.       *)
(***************************************************************************)
Next ==
  \/ \E p \in FeedProcs : FeedStart(p, genRequestId)
  \/ \E p \in FeedProcs : FeedFetchColdStart(p)
  \/ \E p \in FeedProcs : FeedFetchCandidates(p)
  \/ \E p \in FeedProcs : FeedRank(p)
  \/ \E p \in FeedProcs : FeedLogImpressions(p)
  \/ \E q \in InteractProcs : InteractStart(q)
  \/ \E q \in InteractProcs : InteractInsert(q)
  \/ purge_old_articles
  \/ Tick

Spec == Init /\ [][Next]_vars

NextCollide ==
  \/ \E p \in FeedProcs : FeedStart(p, RequestIds)
  \/ \E p \in FeedProcs : FeedFetchColdStart(p)
  \/ \E p \in FeedProcs : FeedFetchCandidates(p)
  \/ \E p \in FeedProcs : FeedRank(p)
  \/ \E p \in FeedProcs : FeedLogImpressions(p)
  \/ \E q \in InteractProcs : InteractStart(q)
  \/ \E q \in InteractProcs : InteractInsert(q)
  \/ purge_old_articles
  \/ Tick

SpecCollide == Init /\ [][NextCollide]_vars

\* the ranking service goes down, stops answering, or comes back
RankerChange ==
  /\ \E r \in {"up", "down", "silent"} \ {ranker} : ranker' = r
  /\ UNCHANGED <<out, now, articles, impressions, interactions, feed, inter,
               feedApp, app>>

\* INSERT INTO interactions (user_id, article_id, interaction_type) VALUES
\* (1, ..., 'click'), ...: rows written by hand, without a request id
SeededInteractions ==
  {[user_id |-> 1, article_id |-> a, request_id |-> 0,
    interaction_type |-> "click"] : a \in {1, 2}}

\* The feed requests next to an unreliable ranking service.  Interaction
\* requests share no await with a feed request; what they leave behind is
\* in the initial state, as a part of the seeded rows.
InitLive ==
  /\ now = InitNow
  /\ articles = ArticleIds
  /\ impressions = {}
  /\ interactions \in SUBSET SeededInteractions
  /\ feed = [p \in FeedProcs |-> FeedIdle]
  /\ inter = [q \in InteractProcs |-> InteractIdle]
  /\ ranker \in {"up", "down", "silent"}
  /\ out = NoRead
  /\ feedApp = FeedAppInit
  /\ app = AppInit

NextLive ==
  \/ \E p \in FeedProcs : FeedStart(p, genRequestId)
  \/ \E p \in FeedProcs : FeedFetchColdStart(p)
  \/ \E p \in FeedProcs : FeedFetchCandidates(p)
  \/ \E p \in FeedProcs : FeedRank(p)
  \/ \E p \in FeedProcs : FeedLogImpressions(p)
  \/ purge_old_articles
  \/ Tick
  \/ RankerChange

\* Every await of a request that has started settles: the database answers
\* each query and the runtime settles each fetch.  Nothing obliges a request
\* to arrive, the clock to tick or the ranking service to recover.
FeedSettles ==
  \A p \in FeedProcs :
    /\ WF_vars(FeedFetchColdStart(p))
    /\ WF_vars(FeedFetchCandidates(p))
    /\ WF_vars(FeedRank(p))
    /\ WF_vars(FeedLogImpressions(p))

SpecLive == InitLive /\ [][NextLive]_vars /\ FeedSettles

(***************************************************************************)
(* Reads of the views and queries outside a request, against tables that   *)
(* do not change meanwhile: one read, which may be repeated once.  The     *)
(* rows of the balanced view are kept as a set, each with its rn_user; the *)
(* rows of the other reads are kept in the order they came.                *)
(***************************************************************************)
ReadColdStart ==
  /\ out = NoRead
  /\ \E items \in fetchColdStart(articles, now) :
       out' = Read("coldstart", 0, COLD_PER_CAT, items)
  /\ UNCHANGED <<ranker, now, articles, impressions, interactions, feed, inter,
               feedApp, app>>

ReadCandidates(u) ==
  /\ out = NoRead
  /\ \E c \in fetchCandidates(u, CANDIDATE_LIMIT, articles, interactions, now) :
       out' = Read("final", u, CANDIDATE_LIMIT, c)
  /\ UNCHANGED <<ranker, now, articles, impressions, interactions, feed, inter,
               feedApp, app>>

ReadBalanced(u) ==
  /\ out = NoRead
  /\ out' = Read("balanced", u, BALANCED_LIMIT,
                 user_semantic_candidates_balanced(
                   u, articles, interactions, now))
  /\ UNCHANGED <<ranker, now, articles, impressions, interactions, feed, inter,
               feedApp, app>>

ReadFeedV1(u, k) ==
  /\ out = NoRead
  /\ \E c \in candidatesQueryV1(u, k, articles, interactions, now) :
       out' = Read("feed_v1", u, k, c)
  /\ UNCHANGED <<ranker, now, articles, impressions, interactions, feed, inter,
               feedApp, app>>

\* the candidates read last are read once more
ReadAgain ==
  /\ out.view \in {"final", "balanced", "feed_v1"}
  /\ ~out.repeated
  /\ \E c \in CASE out.view = "final" ->
                   fetchCandidates(out.user_id, out.k, articles, interactions, now)
                [] out.view = "balanced" ->
                   {user_semantic_candidates_balanced(
                      out.user_id, articles, interactions, now)}
                [] OTHER ->
                   candidatesQueryV1(out.user_id, out.k, articles, interactions, now) :
       out' = [out EXCEPT !.repeated = TRUE, !.again = c]
  /\ UNCHANGED <<ranker, now, articles, impressions, interactions, feed, inter,
               feedApp, app>>

\* the tables of the reads: articles 1..4 and a part of each block, of the
\* sizes <<cold, main, forced>> in sizes, at any time of the clock, with or
\* without the seeded interactions
InitTables(sizes) ==
  /\ now \in InitNow..MaxNow
  /\ \E n \in sizes :
       articles = ArticleIds \cup ColdArticles(n[1]) \cup MainArticles(n[2])
                    \cup ForcedArticles(n[3])
  /\ impressions = {}
  /\ interactions \in {{}, SeededInteractions}
  /\ feed = [p \in FeedProcs |-> FeedIdle]
  /\ inter = [q \in InteractProcs |-> InteractIdle]
  /\ ranker = "up"
  /\ out = NoRead
  /\ feedApp = FeedAppInit
  /\ app = AppInit

\* small tables: the sports block, or a few embedded articles
RetrievalTables ==
  {<<c, 0, 0>> : c \in 0..NumCold}
    \cup {<<0, m, f>> : m \in 0..NumMain, f \in 0..NumForced}

InitRetrieval == InitTables(RetrievalTables)

NextRetrieval ==
  \/ ReadColdStart
  \/ \E u \in UserIds : ReadCandidates(u)
  \/ \E u \in UserIds : ReadBalanced(u)
  \/ \E u \in UserIds, k \in KInputs \ {0} : ReadFeedV1(u, k)
  \/ ReadAgain

SpecRetrieval == InitRetrieval /\ [][NextRetrieval]_vars

\* large tables: main blocks of a few articles and of about as many as the
\* view has main slots, next to forced blocks of every size
BalancedTables ==
  {<<0, m, f>> : m \in (0..8) \cup ((MAIN_SLOTS - 2)..MaxMain),
                 f \in 0..MaxForced}

InitBalanced == InitTables(BalancedTables)

NextBalanced == \E u \in UserIds : ReadBalanced(u)

SpecBalanced == InitBalanced /\ [][NextBalanced]_vars

(***************************************************************************)
(* The training views.  Here a ledger row also has its shown_at, and an    *)
(* interaction row its interaction_time.  A row of the views is its user,  *)
(* article, request id, shown_at, interaction_time, label and weight (in   *)
(* tenths); the feature columns, which no filter of the views reads, are   *)
(* left out.  A view is expanded wherever it is named, so a view over      *)
(* ORDER BY random() is a set of possible results, and each reference      *)
(* draws its own.                                                          *)
(***************************************************************************)
RECURSIVE SubsetsUpTo(_, _)
SubsetsUpTo(S, n) ==
  IF n = 0 THEN {{}}
  ELSE LET P == SubsetsUpTo(S, n - 1)
       IN  P \cup {T \cup {x} : T \in P, x \in S}

SubsetsOfSize(S, n) == {T \in SubsetsUpTo(S, n) : Cardinality(T) = n}

\* the impressions the LATERAL subquery may return for an interaction: one
\* of those of the user and article shown last at or before it
LatestImpressions(it, imprs) ==
  LET m == {i \in imprs : /\ i.user_id = it.user_id
                          /\ i.article_id = it.article_id
                          /\ i.shown_at <= it.interaction_time}
  IN  {i \in m : \A j \in m : j.shown_at <= i.shown_at}

ExplicitRow(it, i) ==
  [user_id |-> it.user_id, article_id |-> it.article_id,
   request_id |-> i.request_id, shown_at |-> i.shown_at,
   interaction_time |-> it.interaction_time,
   label |-> IF it.interaction_type = "like" THEN 1 ELSE 0,
   weight |-> EXPLICIT_WEIGHT]

\* the possible results of training_explicit_aligned
training_explicit_aligned(imprs, inters, arts) ==
  LET its == {it \in inters :
                /\ it.user_id = TRAINING_USER
                /\ it.interaction_type \in {"like", "dislike"}
                /\ it.article_id \in arts
                /\ article_has_embedding(it.article_id)
                /\ user_has_embedding(it.user_id)
                /\ LatestImpressions(it, imprs) # {}}
  IN  {{ExplicitRow(it, f[it]) : it \in its} :
         f \in {g \in [its -> imprs] :
                  \A it \in its : g[it] \in LatestImpressions(it, imprs)}}

\* an interaction made after the impression, and not at its very time
training_implicit_alignedStrictlyAfter(imprs, inters, arts) ==
  {[user_id |-> i.user_id, article_id |-> i.article_id,
    request_id |-> i.request_id, shown_at |-> i.shown_at,
    interaction_time |-> NO_INTERACTION_TIME,
    label |-> 0, weight |-> IMPLICIT_WEIGHT] :
     i \in {j \in imprs :
              /\ j.user_id = TRAINING_USER
              /\ j.article_id \in arts
              /\ article_has_embedding(j.article_id)
              /\ user_has_embedding(j.user_id)
              /\ ~\E it \in inters :
                    /\ it.user_id = j.user_id
                    /\ it.article_id = j.article_id
                    /\ it.interaction_type \in {"like", "dislike"}
                    /\ it.interaction_time > j.shown_at}}

training_implicit_aligned(imprs, inters, arts) ==
  {[user_id |-> i.user_id, article_id |-> i.article_id,
    request_id |-> i.request_id, shown_at |-> i.shown_at,
    interaction_time |-> NO_INTERACTION_TIME,
    label |-> 0, weight |-> IMPLICIT_WEIGHT] :
     i \in {j \in imprs :
              /\ j.user_id = TRAINING_USER
              /\ j.article_id \in arts
              /\ article_has_embedding(j.article_id)
              /\ user_has_embedding(j.user_id)
              /\ ~\E it \in inters :
                    /\ it.user_id = j.user_id
                    /\ it.article_id = j.article_id
                    /\ it.interaction_type \in {"like", "dislike"}
                    /\ it.interaction_time >= j.shown_at}}

\* no LIMIT
training_implicit_sampledAll(imprs, inters, arts) ==
  {training_implicit_aligned(imprs, inters, arts)}

\* ORDER BY random() LIMIT (SELECT COUNT(*) FROM training_explicit_aligned)
training_implicit_sampled(imprs, inters, arts) ==
  LET implicit == training_implicit_aligned(imprs, inters, arts)
  IN  UNION {SubsetsOfSize(implicit, Min(Cardinality(e), Cardinality(implicit))) :
               e \in training_explicit_aligned(imprs, inters, arts)}

\* UNION ALL of the two
training_dataset(imprs, inters, arts) ==
  {e \cup s : e \in training_explicit_aligned(imprs, inters, arts),
              s \in training_implicit_sampled(imprs, inters, arts)}

\* percentile_cont(0.8) of the shown_at of the rows of D, a nonempty result
\* of training_dataset, times 5: the value at position 1 + 0.8 * (n - 1) of
\* the sorted values, interpolated between its two neighbours
cutoff_shown_at(D) ==
  LET s   == CHOOSE q \in SortedSeqs(D, [r \in D |-> r.shown_at]) : TRUE
      pos == PERCENTILE_NUM * (Cardinality(D) - 1)
      lo  == 1 + (pos \div PERCENTILE_DEN)
      fr  == pos % PERCENTILE_DEN
  IN  IF fr = 0 THEN PERCENTILE_DEN * s[lo].shown_at
      ELSE PERCENTILE_DEN * s[lo].shown_at
             + fr * (s[lo + 1].shown_at - s[lo].shown_at)

\* the possible results of training_split_cutoff, times 5; NULL over no rows
training_split_cutoff(imprs, inters, arts) ==
  {[is_null |-> D = {},
    cutoff_shown_at |-> IF D = {} THEN 0 ELSE cutoff_shown_at(D)] :
     D \in training_dataset(imprs, inters, arts)}

\* td CROSS JOIN c WHERE td.shown_at < c.cutoff_shown_at: td and c are two
\* references of training_dataset
training_dataset_train(imprs, inters, arts) ==
  {{r \in td : /\ ~c.is_null
               /\ PERCENTILE_DEN * r.shown_at < c.cutoff_shown_at} :
     td \in training_dataset(imprs, inters, arts),
     c \in training_split_cutoff(imprs, inters, arts)}

\* td CROSS JOIN c WHERE td.shown_at >= c.cutoff_shown_at
training_dataset_val(imprs, inters, arts) ==
  {{r \in td : /\ ~c.is_null
               /\ PERCENTILE_DEN * r.shown_at >= c.cutoff_shown_at} :
     td \in training_dataset(imprs, inters, arts),
     c \in training_split_cutoff(imprs, inters, arts)}

\* the rows a feed written at time t leaves in the ledger, in the order of
\* the article ids
TimedImpressionRows(userId, requestId, served, t) ==
  {[user_id |-> userId, article_id |-> a,
    rank_position |-> Cardinality({b \in served : b <= a}),
    request_id |-> requestId,
    model_version |-> IF user_has_embedding(userId) THEN "ml_mmr_v1_div0.5"
                      ELSE "coldstart_balanced_v1",
    shown_at |-> t] : a \in served}

\* the users of the training tables: those of the requests and one more
\* user with a profile
DatasetUserIds == UserIds \cup {Cardinality(UserIds) + 1}

\* the interactions the users with a profile may have left on the embedded
\* articles 1 and 2
TimedInteractions ==
  {[user_id |-> u, article_id |-> a, request_id |-> 0,
    interaction_type |-> ty, interaction_time |-> t] :
     u \in {v \in DatasetUserIds : user_has_embedding(v)},
     a \in {1, 2}, ty \in {"like", "dislike", "click"},
     t \in 1..(NumRenders + 1)}

\* the tables of the training views: feed r was written at time r, for
\* any of the users, with a part of the articles 1, 2 and 301; at most
\* MaxInteractions interactions, one for a user, article and type
InitDataset ==
  /\ now = MaxNow
  /\ articles = ArticleIds \cup ColdArticles(1)
  /\ \E who \in [1..NumRenders -> DatasetUserIds],
        served \in [1..NumRenders -> SUBSET ({1, 2} \cup ColdArticles(1))] :
       impressions =
         UNION {TimedImpressionRows(who[r], r, served[r], r) : r \in 1..NumRenders}
  /\ interactions \in
       {I \in SubsetsUpTo(TimedInteractions, MaxInteractions) :
          \A x, y \in I :
            (x.user_id = y.user_id /\ x.article_id = y.article_id
               /\ x.interaction_type = y.interaction_type) => x = y}
  /\ feed = [p \in FeedProcs |-> FeedIdle]
  /\ inter = [q \in InteractProcs |-> InteractIdle]
  /\ ranker = "up"
  /\ out = NoRead
  /\ feedApp = FeedAppInit
  /\ app = AppInit

\* SELECT ... FROM training_dataset, then the counts of
\* training_dataset_train and of training_dataset_val, in one session
\* against the same tables
ReadTrainingSplit ==
  /\ out = NoRead
  /\ \E D \in training_dataset(impressions, interactions, articles),
        T \in training_dataset_train(impressions, interactions, articles),
        V \in training_dataset_val(impressions, interactions, articles) :
       out' = Read("training", TRAINING_USER, 0,
                   [dataset |-> D, train |-> T, val |-> V])
  /\ UNCHANGED <<ranker, now, articles, impressions, interactions, feed, inter,
               feedApp, app>>

\* SELECT * FROM training_explicit_aligned and FROM
\* training_implicit_aligned, against the same tables
ReadTrainingClasses ==
  /\ out = NoRead
  /\ \E E \in training_explicit_aligned(impressions, interactions, articles) :
       out' = Read("classes", TRAINING_USER, 0,
                   [explicit |-> E,
                    implicit |->
                      training_implicit_aligned(impressions, interactions, articles)])
  /\ UNCHANGED <<ranker, now, articles, impressions, interactions, feed, inter,
               feedApp, app>>

NextDataset ==
  \/ ReadTrainingSplit
  \/ ReadTrainingClasses

SpecDataset == InitDataset /\ [][NextDataset]_vars

(***************************************************************************)
(* The feed page.  The server is what answers: a feed request is answered  *)
(* with a new request id, a list of items and a mode, or fails; the        *)
(* session lookup names the user, sends the browser to the login page, or  *)
(* fails.  A handler runs without interruption up to its next await.       *)
(***************************************************************************)
PageItemLists == {<<>>, <<1>>, <<2, 1>>}

PageModes == {"coldstart", "personalized_mmr", "fallback_no_candidates"}

PageCategories == {"__all__"} \cup {category(a) : a \in {1, 2}}

DivLevels == {3, 5}

\* fullFeedItems.filter((x) => x.category === selectedCategory), or all
visibleItems(items, selected) ==
  LET shown(a) == category(a) = selected
  IN  IF selected # "__all__" THEN SelectSeq(items, shown) ELSE items

\* loadFeed from "if (isLoadingFeed) return" to the await of the fetch
loadFeedGuarded(fa, c) ==
  IF fa.isLoadingFeed
  THEN [fa EXCEPT !.calls[c] = "blocked"]
  ELSE [fa EXCEPT !.isLoadingFeed = TRUE, !.applyDisabled = TRUE,
                  !.calls[c] = "fetch"]

\* loadFeed up to its first await
loadFeedEntered(fa, c) ==
  IF fa.currentUserId = 0
  THEN [fa EXCEPT !.calls[c] = "session"]
  ELSE loadFeedGuarded(fa, c)

\* sendInteraction up to its fetch: the request, next to the request id of
\* the response the grid was rendered from
sendInteractionFeedApp(fa, a, ty) ==
  IF fa.currentRequestId = 0
  THEN fa
  ELSE [fa EXCEPT !.sent =
          [user_id |-> fa.currentUserId, request_id |-> fa.currentRequestId,
           article_id |-> a, interaction_type |-> ty,
           rendered_request_id |-> fa.gridRequestId,
           rendered_user_id |-> fa.currentUserId]]

\* DOMContentLoaded: the listeners are bound, then await loadSessionUser()
FeedAppStartup ==
  /\ feedApp.calls[1] = "idle"
  /\ feedApp' = [feedApp EXCEPT !.calls[1] = "session"]
  /\ UNCHANGED <<now, articles, impressions, interactions, feed, inter,
                 ranker, out, app>>

\* a click on Apply, which the browser delivers while the button is enabled
FeedAppApplyClick(c) ==
  /\ c # 1
  /\ feedApp.calls[1] # "idle"
  /\ feedApp.calls[c] = "idle"
  /\ \A x \in PageCalls : (1 < x /\ x < c) => feedApp.calls[x] # "idle"
  /\ ~feedApp.left
  /\ ~feedApp.applyDisabled
  /\ \E d \in DivLevels :
       feedApp' = loadFeedEntered([feedApp EXCEPT !.div = d], c)
  /\ UNCHANGED <<now, articles, impressions, interactions, feed, inter,
                 ranker, out, app>>

\* await loadSessionUser() settles, in the startup handler or in loadFeed
FeedAppSessionSettles(c) ==
  /\ feedApp.calls[c] = "session"
  /\ ~feedApp.left
  /\ \/ \E u \in UserIds :
          feedApp' = loadFeedGuarded([feedApp EXCEPT !.currentUserId = u], c)
     \/ feedApp' = [feedApp EXCEPT !.calls[c] = "noUser", !.left = TRUE]
     \/ feedApp' = [feedApp EXCEPT !.calls[c] = "noUser"]
  /\ UNCHANGED <<now, articles, impressions, interactions, feed, inter,
                 ranker, out, app>>

\* a response that changes currentRequestId and leaves the grid as it was
FeedAppResponseNoRender(c) ==
  /\ feedApp.calls[c] = "fetch"
  /\ ~feedApp.left
  /\ \/ \E items \in PageItemLists, mode \in PageModes :
          feedApp' = [feedApp EXCEPT
                        !.currentRequestId = feedApp.issued + 1,
                        !.issued = feedApp.issued + 1,
                        !.isColdStart = (mode = "coldstart"),
                        !.fullFeedItems = items,
                        !.applyDisabled = (mode = "coldstart"),
                        !.isLoadingFeed = FALSE,
                        !.calls[c] = "done"]
     \/ feedApp' = [feedApp EXCEPT
                      !.isLoadingFeed = FALSE,
                      !.applyDisabled = feedApp.isColdStart,
                      !.calls[c] = "failed"]
  /\ UNCHANGED <<now, articles, impressions, interactions, feed, inter,
                 ranker, out, app>>

\* a failure that leaves isLoadingFeed set
FeedAppResponseKeepsLoading(c) ==
  /\ feedApp.calls[c] = "fetch"
  /\ ~feedApp.left
  /\ \/ \E items \in PageItemLists, mode \in PageModes :
          feedApp' = [feedApp EXCEPT
                        !.currentRequestId = feedApp.issued + 1,
                        !.issued = feedApp.issued + 1,
                        !.isColdStart = (mode = "coldstart"),
                        !.fullFeedItems = items,
                        !.grid = visibleItems(items, feedApp.selectedCategory),
                        !.gridRequestId = feedApp.issued + 1,
                        !.applyDisabled = (mode = "coldstart"),
                        !.isLoadingFeed = FALSE,
                        !.calls[c] = "done"]
     \/ feedApp' = [feedApp EXCEPT !.calls[c] = "failed"]
  /\ UNCHANGED <<now, articles, impressions, interactions, feed, inter,
                 ranker, out, app>>

\* await fetch(/api/feed) has settled.  On an OK response the request id,
\* the mode and the items are taken and the visible items rendered, in one
\* run; otherwise the catch block leaves them.  Both end in
\* setFeedLoadingUI(false).
FeedAppResponse(c) ==
  /\ feedApp.calls[c] = "fetch"
  /\ ~feedApp.left
  /\ \/ \E items \in PageItemLists, mode \in PageModes :
          feedApp' = [feedApp EXCEPT
                        !.currentRequestId = feedApp.issued + 1,
                        !.issued = feedApp.issued + 1,
                        !.isColdStart = (mode = "coldstart"),
                        !.fullFeedItems = items,
                        !.grid = visibleItems(items, feedApp.selectedCategory),
                        !.gridRequestId = feedApp.issued + 1,
                        !.applyDisabled = (mode = "coldstart"),
                        !.isLoadingFeed = FALSE,
                        !.calls[c] = "done"]
     \/ feedApp' = [feedApp EXCEPT
                      !.isLoadingFeed = FALSE,
                      !.applyDisabled = feedApp.isColdStart,
                      !.calls[c] = "failed"]
  /\ UNCHANGED <<now, articles, impressions, interactions, feed, inter,
                 ranker, out, app>>

\* the change handler of categorySelect
FeedAppCategoryChange(cat) ==
  /\ ~feedApp.left
  /\ cat # feedApp.selectedCategory
  /\ feedApp' = [feedApp EXCEPT
                   !.selectedCategory = cat,
                   !.grid = visibleItems(feedApp.fullFeedItems, cat)]
  /\ UNCHANGED <<now, articles, impressions, interactions, feed, inter,
                 ranker, out, app>>

\* a click on Like, Dislike, or the title or image link of a card
FeedAppInteract(a, ty) ==
  /\ ~feedApp.left
  /\ a \in Range(feedApp.grid)
  /\ feedApp' = sendInteractionFeedApp(feedApp, a, ty)
  /\ UNCHANGED <<now, articles, impressions, interactions, feed, inter,
                 ranker, out, app>>

\* a click on Share: await navigator.clipboard.writeText(...)
FeedAppShareClick(a) ==
  /\ ~feedApp.left
  /\ feedApp.share = 0
  /\ a \in Range(feedApp.grid)
  /\ feedApp' = [feedApp EXCEPT !.share = a]
  /\ UNCHANGED <<now, articles, impressions, interactions, feed, inter,
                 ranker, out, app>>

\* the clipboard has settled either way: sendInteraction(articleId, "share")
FeedAppShareSettles ==
  /\ ~feedApp.left
  /\ feedApp.share # 0
  /\ feedApp' = sendInteractionFeedApp([feedApp EXCEPT !.share = 0],
                                       feedApp.share, "share")
  /\ UNCHANGED <<now, articles, impressions, interactions, feed, inter,
                 ranker, out, app>>

NextFeedApp ==
  \/ FeedAppStartup
  \/ \E c \in PageCalls : FeedAppApplyClick(c)
  \/ \E c \in PageCalls : FeedAppSessionSettles(c)
  \/ \E c \in PageCalls : FeedAppResponse(c)
  \/ \E cat \in PageCategories : FeedAppCategoryChange(cat)
  \/ \E a \in ArticleIds, ty \in {"like", "dislike", "click"} :
       FeedAppInteract(a, ty)
  \/ \E a \in ArticleIds : FeedAppShareClick(a)
  \/ FeedAppShareSettles

SpecFeedApp == Init /\ [][NextFeedApp]_vars

(***************************************************************************)
(* The page with a user-id input.                                          *)
(***************************************************************************)
\* the user types into the user-id field
AppInput(u) ==
  /\ u # app.userIdInput
  /\ app' = [app EXCEPT !.userIdInput = u]
  /\ UNCHANGED <<now, articles, impressions, interactions, feed, inter,
                 ranker, out, feedApp>>

\* a click on Load, which the browser delivers while the button is
\* enabled: loadFeed up to its await.  With an invalid value in the field
\* it raises a toast and changes nothing.
AppLoadClick ==
  /\ ~app.loadBtnDisabled
  /\ app.loads < NumPageLoads
  /\ ~(app.userIdInput <= 0)
  /\ app' = [app EXCEPT !.currentUserId = app.userIdInput,
                        !.loadBtnDisabled = TRUE,
                        !.inFlight = app.userIdInput,
                        !.loads = app.loads + 1]
  /\ UNCHANGED <<now, articles, impressions, interactions, feed, inter,
                 ranker, out, feedApp>>

\* await fetch(/feed?user_id=...) has settled: try, catch and finally
AppResponse ==
  /\ app.inFlight # 0
  /\ \/ \E items \in PageItemLists :
          app' = [app EXCEPT !.currentRequestId = app.loads,
                             !.grid = items,
                             !.gridRequestId = app.loads,
                             !.gridUserId = app.inFlight,
                             !.inFlight = 0,
                             !.loadBtnDisabled = FALSE]
     \/ app' = [app EXCEPT !.inFlight = 0, !.loadBtnDisabled = FALSE]
  /\ UNCHANGED <<now, articles, impressions, interactions, feed, inter,
                 ranker, out, feedApp>>

\* a click on Like, Share or Dislike of a card: sendInteraction up to its
\* fetch
AppInteract(a, ty) ==
  /\ a \in Range(app.grid)
  /\ app' = IF app.currentRequestId = 0
            THEN app
            ELSE [app EXCEPT !.sent =
                    [user_id |-> app.currentUserId,
                     request_id |-> app.currentRequestId,
                     article_id |-> a, interaction_type |-> ty,
                     rendered_request_id |-> app.gridRequestId,
                     rendered_user_id |-> app.gridUserId]]
  /\ UNCHANGED <<now, articles, impressions, interactions, feed, inter,
                 ranker, out, feedApp>>

NextApp ==
  \/ \E u \in UserInputs : AppInput(u)
  \/ AppLoadClick
  \/ AppResponse
  \/ \E a \in ArticleIds, ty \in {"like", "share", "dislike"} : AppInteract(a, ty)

SpecApp == Init /\ [][NextApp]_vars

(***************************************************************************)
(* Properties.                                                             *)
(***************************************************************************)
RowsOfRequest(rid) == {r \in impressions : r.request_id = rid}

C2_LedgerWrite ==
  /\ [](\A r1, r2 \in impressions :
          (r1.request_id = r2.request_id /\ r1.article_id = r2.article_id)
            => r1 = r2)
  /\ [][\A p \in FeedProcs :
          (/\ feed[p].pc = "logImpressions"
           /\ feed'[p].pc = "done"
           /\ feed'[p].resp.status = 200)
          => LET items == feed[p].items
                 added == impressions' \ impressions
             IN /\ Cardinality(added) = Len(items)
                /\ {r.rank_position : r \in added} = 1..Len(items)
                /\ \A i \in 1..Len(items) :
                     \E r \in added :
                       /\ r.article_id = items[i]
                       /\ r.rank_position = i
                       /\ r.request_id = feed[p].request_id
                /\ impressions \subseteq impressions'
                /\ feed'[p].resp.items = items]_vars

\* one render wrote two rows, another answered 200 with an empty list and
\* wrote none
C2_Witness ==
  \E p1, p2 \in FeedProcs :
    /\ feed[p1].resp.status = 200
    /\ Len(feed[p1].resp.items) = 2
    /\ Cardinality(RowsOfRequest(feed[p1].request_id)) = 2
    /\ feed[p2].resp.status = 200
    /\ feed[p2].request_id # 0
    /\ Len(feed[p2].resp.items) = 0
    /\ RowsOfRequest(feed[p2].request_id) = {}

\* C3: the ledger never holds a part of a render: a request that has not
\* answered 200 has no row, and one that has answered 200 has a row for
\* every item of its response (a row leaves the ledger only when its
\* article is deleted, by the cascade of fk_impr_article).
C3_AtomicLedgerWrite ==
  \A p \in FeedProcs :
    feed[p].request_id # 0 =>
      IF feed[p].resp.status = 200
      THEN {r.article_id : r \in RowsOfRequest(feed[p].request_id)}
             = Range(feed[p].resp.items) \cap articles
      ELSE RowsOfRequest(feed[p].request_id) = {}

\* a ledger write has failed and left no row, next to a render whose two
\* rows are all there
C3_Witness ==
  \E p1, p2 \in FeedProcs :
    /\ feed[p1].err = "ledger"
    /\ RowsOfRequest(feed[p1].request_id) = {}
    /\ feed[p2].resp.status = 200
    /\ Len(feed[p2].resp.items) = 2
    /\ Cardinality(RowsOfRequest(feed[p2].request_id)) = 2

\* C4: once an impression is recorded for (user u, article a), no later
\* personalized candidate retrieval for u contains a.
C4_ServedNeverRetrievedAgain ==
  [][\A p \in FeedProcs :
       (feed[p].pc = "fetchCandidates" /\ feed'[p].pc = "rank")
       => \A a \in Range(feed'[p].candidates) :
            ~\E r \in impressions :
               r.user_id = feed[p].user_id /\ r.article_id = a]_vars

\* C5: a valid feed request of a user whose embedding is null never reaches
\* the candidate query or the ranking service, and its answer is the
\* cold-start feed (or the 500 of a failed ledger write).
C5_NullEmbeddingIsColdStart ==
  \A p \in FeedProcs :
    (feed[p].request_id # 0 /\ ~user_has_embedding(feed[p].user_id))
    => /\ feed[p].rr = "none"
       /\ feed[p].pc \notin {"fetchCandidates", "rank"}
       /\ feed[p].resp.status # 0
            => \/ feed[p].resp.status = 200 /\ feed[p].resp.mode = "coldstart"
               \/ feed[p].resp.status = 500 /\ feed[p].err = "ledger"

\* a user without embedding got a cold-start feed with items while another
\* request went through the ranking service
C5_Witness ==
  \E p1, p2 \in FeedProcs :
    /\ ~user_has_embedding(feed[p1].user_id)
    /\ feed[p1].resp.status = 200
    /\ feed[p1].resp.mode = "coldstart"
    /\ Len(feed[p1].resp.items) > 0
    /\ feed[p2].rr = "ok"

SameInteraction(q1, q2) ==
  /\ inter[q1].user_id = inter[q2].user_id
  /\ inter[q1].request_id = inter[q2].request_id
  /\ inter[q1].article_id = inter[q2].article_id
  /\ inter[q1].interaction_type = inter[q2].interaction_type

\* C6: of two sends of the same interaction (same user, request id,
\* article, type) one row results, and when one send has succeeded the
\* other is answered with a conflict (409), not with an internal error.
C6_DuplicateIsConflict ==
  \A q1, q2 \in InteractProcs :
    (/\ q1 # q2
     /\ SameInteraction(q1, q2)
     /\ inter[q1].status = 200
     /\ inter[q2].pc = "done")
    => /\ inter[q2].status = 409
       /\ Cardinality({i \in interactions :
                         /\ i.user_id = inter[q1].user_id
                         /\ i.request_id = inter[q1].request_id
                         /\ i.article_id = inter[q1].article_id
                         /\ i.interaction_type = inter[q1].interaction_type}) <= 1

\* C7: every Interaction row has an Impression row with the same
\* (user id, request id, article id), whatever the interleaving of feed
\* requests, interaction requests and purges.
C7_InteractionHasImpression ==
  \A i \in interactions :
    \E r \in impressions :
      /\ r.user_id = i.user_id
      /\ r.request_id = i.request_id
      /\ r.article_id = i.article_id

\* one interaction is recorded, and another one, whose impression was
\* purged between its lookup and its insert, was rejected
C7_Witness ==
  /\ interactions # {}
  /\ \E q \in InteractProcs :
       /\ inter[q].chk = "found"
       /\ inter[q].status = 500
       /\ inter[q].article_id \notin articles

\* C8: when a render writes to the ledger under a request id that already
\* has a row for one of its articles, the write adds no row and the request
\* is answered with a conflict (409), not with the 500 of an internal error.
C8_CollisionIsConflict ==
  [][\A p \in FeedProcs :
       (/\ feed[p].pc = "logImpressions"
        /\ feed'[p].pc = "done"
        /\ \E r \in impressions :
              /\ r.request_id = feed[p].request_id
              /\ r.article_id \in Range(feed[p].items))
       => (/\ impressions' = impressions
           /\ feed'[p].resp.status = 409)]_vars

\* C9: when the ranking service answers non-OK the request ends with an
\* error response without items, and the ledger holds no row of its
\* request id.
C9_RankerFailureServesNothing ==
  \A p \in FeedProcs :
    feed[p].rr = "notok"
    => /\ feed[p].pc = "done"
       /\ feed[p].resp.status = 500
       /\ feed[p].resp.items = <<>>
       /\ RowsOfRequest(feed[p].request_id) = {}

\* the ranking service failed for one request while another render of the
\* same user was served and logged
C9_Witness ==
  \E p1, p2 \in FeedProcs :
    /\ feed[p1].rr = "notok"
    /\ feed[p1].resp.status = 500
    /\ feed[p2].user_id = feed[p1].user_id
    /\ feed[p2].resp.status = 200
    /\ RowsOfRequest(feed[p2].request_id) # {}

\* C10: a feed request whose candidate query fails answers with the
\* cold-start fallback feed instead of failing.
C10_RetrievalFailureFallsBack ==
  \A p \in FeedProcs :
    (feed[p].pc = "done" /\ feed[p].err = "candidates")
    => /\ feed[p].resp.status = 200
       /\ feed[p].resp.mode \in {"coldstart", "fallback_no_candidates"}

C12_InteractionLeavesImpressions ==
  [][\A q \in InteractProcs :
       inter'[q] # inter[q]
       => /\ impressions' = impressions
          /\ interactions \subseteq interactions'
          /\ Cardinality(interactions' \ interactions) =
               IF inter'[q].status = 200 THEN 1 ELSE 0]_vars

\* one interaction was recorded and another failed at its insert, and the
\* impression the recorded one was checked against is still in the ledger
C12_Witness ==
  \E q1, q2 \in InteractProcs :
    /\ inter[q1].status = 200
    /\ inter[q2].status = 500
    /\ \E r \in impressions :
         /\ r.user_id = inter[q1].user_id
         /\ r.request_id = inter[q1].request_id
         /\ r.article_id = inter[q1].article_id

C14_ColdStartFeed ==
  /\ out.view = "coldstart"
     => /\ \A i \in DOMAIN out.rows :
             /\ category(out.rows[i])
                  \in {"Politiki", "Oikonomia", "Athlitika", "Gaming"}
             /\ ~published_at_is_null(out.rows[i])
             /\ published_at(out.rows[i]) >= now - 7
        /\ \A c \in {"Politiki", "Oikonomia", "Athlitika", "Gaming"} :
             Cardinality({i \in DOMAIN out.rows : category(out.rows[i]) = c}) <= 12
        /\ \A i, j \in DOMAIN out.rows :
             i < j => published_at(out.rows[i]) >= published_at(out.rows[j])
  /\ out.view = "final"
     => \A i \in DOMAIN out.rows : ~published_at_is_null(out.rows[i])
  /\ out.view = "balanced"
     => \A r \in out.rows : ~published_at_is_null(r.article_id)
  /\ out.view = "feed_v1"
     => \A i \in DOMAIN out.rows : ~published_at_is_null(out.rows[i].article_id)

\* a cold-start list with 12 sports articles, read while the table holds
\* more than 12 recent ones, and an article without publish time
C14_Witness ==
  /\ out.view = "coldstart"
  /\ Cardinality({i \in DOMAIN out.rows : category(out.rows[i]) = "Athlitika"}) = 12
  /\ Cardinality({a \in articles :
                    category(a) = "Athlitika" /\ published_at(a) >= now - 7}) > 12
  /\ \E a \in articles :
       published_at_is_null(a) /\ category(a) = "Politiki"

\* C15 as stated: counted over the whole balanced list no category has more
\* rows than its cap (45/30/20/5), the forced slice has at most 10 rows and
\* every forced row comes from a forced source.
C15_NoCategoryOverCap ==
  out.view = "balanced"
  => /\ \A c \in {"Politiki", "Oikonomia", "Athlitika", "Gaming"} :
          Cardinality({r \in out.rows : category(r.article_id) = c})
            <= CASE c = "Politiki" -> 45
                 [] c = "Oikonomia" -> 30
                 [] c = "Athlitika" -> 20
                 [] OTHER -> 5
     /\ Cardinality({r \in out.rows : r.forced}) <= 10
     /\ \A r \in out.rows :
          r.forced => source(r.article_id)
                        \in {"bbc.com", "bleacherreport.com", "goal.com"}

\* C15 as amended: counted over the main slice of the balanced list (the
\* rows that are not forced) no category has more rows than its cap and
\* every row is of a capped category; the forced slice has at most 10 rows,
\* all from forced sources, and is not counted against the category caps.
C15_MainSliceWithinCaps ==
  out.view = "balanced"
  => /\ \A c \in {"Politiki", "Oikonomia", "Athlitika", "Gaming"} :
          Cardinality({r \in out.rows : ~r.forced /\ category(r.article_id) = c})
            <= CASE c = "Politiki" -> 45
                 [] c = "Oikonomia" -> 30
                 [] c = "Athlitika" -> 20
                 [] OTHER -> 5
     /\ \A r \in out.rows :
          ~r.forced => category(r.article_id)
                         \in {"Politiki", "Oikonomia", "Athlitika", "Gaming"}
     /\ Cardinality({r \in out.rows : r.forced}) <= 10
     /\ \A r \in out.rows :
          r.forced <=> source(r.article_id)
                         \in {"bbc.com", "bleacherreport.com", "goal.com"}

\* a balanced list whose main slice has its 5 gaming rows while the table
\* offers more, and whose forced slice has its 10 rows while the table
\* offers more
C15_Witness ==
  /\ out.view = "balanced"
  /\ Cardinality({r \in out.rows : ~r.forced /\ category(r.article_id) = "Gaming"}) = 5
  /\ Cardinality({a \in ranked_per_category(
                     balanced_base(out.user_id, articles, interactions, now)) :
                    category(a) = "Gaming"}) > 5
  /\ Cardinality({r \in out.rows : r.forced}) = 10
  /\ Cardinality(forced_ranked(
                   balanced_base(out.user_id, articles, interactions, now))) > 10

\* C16: in the balanced list the i-th forced row, in the forced rows' own
\* order, has rank (number of main rows) + i, so the ranks of the list are
\* 1..n with the forced rows last; the candidates the first route serves
\* come in that order.
C16_ForcedSliceFollowsMainPool ==
  /\ out.view = "balanced"
     => /\ \A r \in out.rows :
             r.forced
             => r.rn_user =
                  Cardinality({x \in out.rows : ~x.forced}) + 1
                  + Cardinality({x \in out.rows :
                                   /\ x.forced
                                   /\ TieBrokenBefore(out.user_id, x.article_id,
                                                      r.article_id)})
        /\ {r.rn_user : r \in out.rows} = 1..Cardinality(out.rows)
  /\ out.view = "feed_v1"
     => \A i, j \in DOMAIN out.rows :
          i < j => out.rows[i].rn_user < out.rows[j].rn_user

\* C17: the balanced list has at most 100 rows, and when the category-capped
\* pool and the picked forced rows are at most 100 together, all of them are
\* in the list.
C17_WholePoolReturned ==
  out.view = "balanced"
  => /\ Cardinality(out.rows) <= 100
     /\ LET base == balanced_base(out.user_id, articles, interactions, now)
            pool == quota_applied(out.user_id, base)
                      \cup forced_picked(out.user_id, base)
        IN Cardinality(pool) <= 100
           => pool \subseteq {r.article_id : r \in out.rows}

\* C18: two reads of the candidates of one user, who has an embedding,
\* against the same tables return the same articles in the same order.
C18_RetrievalIsDeterministic ==
  (out.repeated /\ user_has_embedding(out.user_id)) => out.again = out.rows

\* C19: for a user whose embedding is null every candidate view, and the
\* candidates query of the first route, returns no row.
C19_NullEmbeddingHasNoCandidates ==
  ~user_has_embedding(out.user_id)
  => /\ out.view \in {"final", "feed_v1"} => Len(out.rows) = 0
     /\ out.view = "balanced" => out.rows = {}


\* C20: for one state of the tables, the train view and the validation view
\* split the combined dataset: no row is in both, and every row of the
\* dataset is in exactly one of the two.
C20_TrainValPartition ==
  out.view = "training" =>
    /\ out.rows.train \cap out.rows.val = {}
    /\ out.rows.train \cup out.rows.val = out.rows.dataset


\* C21: the sampled implicit class of the training dataset has exactly as
\* many rows as the explicit class, however many impressions without a
\* reaction there are.
C21_ImplicitCountIsExplicitCount ==
  out.view = "training" =>
    Cardinality({r \in out.rows.dataset : r.weight = IMPLICIT_WEIGHT})
      = Cardinality({r \in out.rows.dataset : r.weight = EXPLICIT_WEIGHT})

\* C21, amended: the sampled implicit class has as many rows as the
\* explicit class when there are at least as many implicit rows to draw
\* from, and all of them otherwise.
C21_ImplicitCountIsCappedCount ==
  out.view = "training" =>
    Cardinality({r \in out.rows.dataset : r.weight = IMPLICIT_WEIGHT})
      = Min(Cardinality({r \in out.rows.dataset : r.weight = EXPLICIT_WEIGHT}),
            Cardinality(training_implicit_aligned(
                          impressions, interactions, articles)))

\* a dataset with an explicit row, whose implicit rows were drawn from more
C21_Witness ==
  /\ out.view = "training"
  /\ \E e \in out.rows.dataset : e.weight = EXPLICIT_WEIGHT
  /\ Cardinality({r \in out.rows.dataset : r.weight = IMPLICIT_WEIGHT})
       = Cardinality({r \in out.rows.dataset : r.weight = EXPLICIT_WEIGHT})
  /\ Cardinality(training_implicit_aligned(impressions, interactions, articles))
       > Cardinality({r \in out.rows.dataset : r.weight = EXPLICIT_WEIGHT})

\* C22: the explicit class has exactly one row for each like or dislike of
\* any user on any article that has an impression of the user and article
\* at or before it, joined to the one shown last, with label 1 for a like
\* and 0 for a dislike, and weight 1.0.
C22_ExplicitRowPerReaction ==
  out.view = "classes" =>
    \A it \in interactions :
      (/\ it.interaction_type \in {"like", "dislike"}
       /\ LatestImpressions(it, impressions) # {})
      => LET rows == {r \in out.rows.explicit :
                        /\ r.user_id = it.user_id
                        /\ r.article_id = it.article_id
                        /\ r.interaction_time = it.interaction_time
                        /\ r.label = IF it.interaction_type = "like"
                                     THEN 1 ELSE 0}
         IN  /\ Cardinality(rows) = 1
             /\ \A r \in rows :
                  /\ r.weight = EXPLICIT_WEIGHT
                  /\ \E i \in LatestImpressions(it, impressions) :
                       /\ r.request_id = i.request_id
                       /\ r.shown_at = i.shown_at

\* C23: the explicit and the implicit class are disjoint: an implicit row
\* is an impression with no like or dislike of its user and article at or
\* after its shown_at, so no impression an explicit row is joined to is an
\* implicit row.
C23_ClassesDisjoint ==
  out.view = "classes" =>
    /\ \A m \in out.rows.implicit :
         ~\E it \in interactions :
            /\ it.user_id = m.user_id
            /\ it.article_id = m.article_id
            /\ it.interaction_type \in {"like", "dislike"}
            /\ it.interaction_time >= m.shown_at
    /\ \A e \in out.rows.explicit, m \in out.rows.implicit :
         ~(/\ e.user_id = m.user_id
           /\ e.article_id = m.article_id
           /\ e.request_id = m.request_id
           /\ e.shown_at = m.shown_at)

\* an article shown before and after its like: an explicit and an implicit
\* row of one user and article
C23_Witness ==
  /\ out.view = "classes"
  /\ \E e \in out.rows.explicit, m \in out.rows.implicit :
       /\ e.user_id = m.user_id
       /\ e.article_id = m.article_id
       /\ e.shown_at <= e.interaction_time
       /\ e.interaction_time < m.shown_at


\* C24: every successful feed response carries a mode flag that is one of
\* coldstart, personalized and fallback_no_candidates, and the flag is
\* coldstart exactly when the user has no profile embedding.
C24_ModeFlagAsSpecified ==
  \A p \in FeedProcs :
    feed[p].resp.status = 200 =>
      /\ feed[p].resp.mode \in
           {"coldstart", "personalized", "fallback_no_candidates"}
      /\ feed[p].resp.mode = "coldstart" <=> ~hasUserEmbedding(feed[p].user_id)

\* C24, amended: the flag is one of coldstart, personalized_mmr and
\* fallback_no_candidates, and it is coldstart exactly when the user has no
\* profile embedding.
C24_ModeFlag ==
  \A p \in FeedProcs :
    feed[p].resp.status = 200 =>
      /\ feed[p].resp.mode \in
           {"coldstart", "personalized_mmr", "fallback_no_candidates"}
      /\ feed[p].resp.mode = "coldstart" <=> ~hasUserEmbedding(feed[p].user_id)

\* a cold start next to a personalized render of a user with a profile
C24_Witness ==
  \E p1, p2 \in FeedProcs :
    /\ feed[p1].resp.status = 200
    /\ feed[p1].resp.mode = "coldstart"
    /\ ~hasUserEmbedding(feed[p1].user_id)
    /\ feed[p2].resp.status = 200
    /\ feed[p2].resp.mode = "personalized_mmr"
    /\ hasUserEmbedding(feed[p2].user_id)

\* C25: a successful feed response, in any mode, has at most k items, k
\* being the validated result size of the request.
C25_AtMostKItems ==
  [][\A p \in FeedProcs :
       (/\ feed[p].pc # "done"
        /\ feed'[p].pc = "done"
        /\ feed'[p].resp.status = 200)
       => Len(feed'[p].resp.items) <= feed[p].k]_vars

\* C26: when a feed request is answered with success, the ledger rows of
\* its request id are the items of the response: one row per item, of the
\* requesting user, ranked by its position in the response, all with the
\* model version of the request; and a render whose write left no row is
\* answered with an error, not with its items.
C26_LedgerIsResponse ==
  [][\A p \in FeedProcs :
       /\ (/\ feed[p].pc # "done"
           /\ feed'[p].pc = "done"
           /\ feed'[p].resp.status = 200)
          => {r \in impressions' : r.request_id = feed'[p].request_id}
               = ImpressionRows(feed[p].user_id, feed'[p].request_id,
                                feed'[p].resp.items, feed[p].model_version)
       /\ (/\ feed[p].pc = "logImpressions"
           /\ feed'[p].pc = "done"
           /\ Len(feed[p].items) > 0
           /\ impressions' = impressions)
          => /\ feed'[p].resp.status = 500
             /\ feed'[p].resp.items = <<>>]_vars

\* a personalized render of two items with its two rows, next to a render
\* whose write failed and which was answered with an error
C26_Witness ==
  \E p1, p2 \in FeedProcs :
    /\ feed[p1].resp.status = 200
    /\ feed[p1].resp.mode = "personalized_mmr"
    /\ Len(feed[p1].resp.items) = 2
    /\ \A i \in 1..2 :
         \E r \in RowsOfRequest(feed[p1].request_id) :
           /\ r.article_id = feed[p1].resp.items[i]
           /\ r.rank_position = i
           /\ r.user_id = feed[p1].user_id
           /\ r.model_version = "ml_mmr_v1_div0.5"
    /\ feed[p2].err = "ledger"
    /\ feed[p2].resp.status = 500


\* C27: in the feed page, whatever feed loads (successful or failed),
\* diversity changes and category changes came before, an interaction
\* request carries the request id of the feed response whose items the grid
\* shows when it is sent, and none is sent before a feed response arrived.
C27_InteractionCarriesRenderedRequest ==
  /\ feedApp.currentRequestId = feedApp.gridRequestId
  /\ feedApp.sent # NoSent =>
       /\ feedApp.sent.request_id # 0
       /\ feedApp.sent.request_id = feedApp.sent.rendered_request_id
       /\ feedApp.issued >= 1

\* after a load that failed, under a category filter, a share whose
\* clipboard settled after a later load is sent with the request id of
\* that later load
C27_Witness ==
  /\ \E c \in PageCalls : feedApp.calls[c] = "failed"
  /\ feedApp.selectedCategory # "__all__"
  /\ feedApp.sent.interaction_type = "share"
  /\ feedApp.sent.request_id = feedApp.gridRequestId
  /\ feedApp.issued >= 2

\* C28: in the page with a user-id input, an interaction request carries
\* the user id and the request id of one feed response, the one the grid
\* was rendered from, also after a later load for another user has failed.
C28_InteractionOfOneResponse ==
  app.sent # NoSent =>
    /\ app.sent.request_id = app.sent.rendered_request_id
    /\ app.sent.user_id = app.sent.rendered_user_id

\* C29: in the feed page at most one feed request is in flight, a call of
\* loadFeed made while isLoadingFeed is set sends nothing, and
\* isLoadingFeed is set exactly while a request is in flight, so it is
\* cleared when the request completes, with success or failure.
C29_OneFeedRequestInFlight ==
  /\ [](Cardinality({c \in PageCalls : feedApp.calls[c] = "fetch"}) <= 1)
  /\ [](feedApp.isLoadingFeed
          <=> \E c \in PageCalls : feedApp.calls[c] = "fetch")
  /\ [][\A c \in PageCalls :
          (feedApp.isLoadingFeed /\ feedApp.calls[c] # "fetch")
            => feedApp'.calls[c] # "fetch"]_vars

\* a call returned at the guard, a request failed, and a later one succeeded
C29_Witness ==
  /\ \E c \in PageCalls : feedApp.calls[c] = "blocked"
  /\ \E c \in PageCalls : feedApp.calls[c] = "failed"
  /\ \E c \in PageCalls : feedApp.calls[c] = "done"
  /\ ~feedApp.isLoadingFeed

\* C30: no article is twice in the balanced candidate list of a user: the
\* main rows are of the other sources and the forced rows of the forced
\* sources.
C30_NoArticleTwice ==
  out.view = "balanced" =>
    /\ \A r1, r2 \in out.rows : r1.article_id = r2.article_id => r1 = r2
    /\ \A r \in out.rows : r.forced <=> source(r.article_id) \in FORCED_SOURCES

\* a list with main rows and forced rows
C30_Witness ==
  /\ out.view = "balanced"
  /\ Cardinality({r \in out.rows : r.forced}) >= 2
  /\ Cardinality({r \in out.rows : ~r.forced}) >= 2

====
